---- MODULE Spec2Model ----
(***************************************************************************)
(* Model of the two plotting programs of craps-dice-control-rs:            *)
(*   plot-medrange.py  : main -> offset_ptiles2(ptiles_from_input2) ->     *)
(*                       plot2 (sparse assembly, band chart, diagnostics)  *)
(*   plot-rollstats.py : main -> counts_from_input -> plot                 *)
(* Python list index i is TLA+ sequence index i + 1.  Values are integers  *)
(* (an integral --offset-y keeps every subtraction exact); the roll        *)
(* frequencies, floats in the source, are kept as exact fractions          *)
(* <<numerator, denominator>>.                                             *)
(***************************************************************************)
EXTENDS Integers, Sequences, FiniteSets, TLC

VARIABLES
    pc,         \* position of plot-medrange.py's main/plot2
    err,        \* the exception that ended the invocation, "" if none
    args,       \* the parsed arguments (format, offset_y, ymin, ymax)
    consumed,   \* the records read from args.input so far, in arrival order
    p0, p5, p25, p50, p75, p95, p100,   \* plot2's seven lists
    last_idx,   \* plot2's high-water mark
    fig,        \* the figure being built by the plt.* calls
    out_fd,     \* what has been written to args.output
    stderr,     \* the lines log() has printed
    roll_pc,    \* position of plot-rollstats.py's main/plot
    roll_err,   \* the exception that ended it, "" if none
    roll_format,\* plot's file_format
    roll_read,  \* the records read from its input so far
    counts,     \* plot's running total vector
    total,      \* plot's total
    freqs,      \* plot's freqs, as fractions
    roll_fig,   \* the figure being built
    roll_out    \* what has been written to its output

medvars  == <<pc, err, args, consumed, p0, p5, p25, p50, p75, p95, p100,
              last_idx, fig, out_fd, stderr>>
rollvars == <<roll_pc, roll_err, roll_format, roll_read, counts, total,
              freqs, roll_fig, roll_out>>
vars     == <<pc, err, args, consumed, p0, p5, p25, p50, p75, p95, p100,
              last_idx, fig, out_fd, stderr,
              roll_pc, roll_err, roll_format, roll_read, counts, total,
              freqs, roll_fig, roll_out>>

(***************************************************************************)
(* Bounds of the model.                                                    *)
(***************************************************************************)
\* the longest record stream fed to plot2
MaxRecords == 3
\* the largest index a sparse record carries
MaxIdx == 3
\* the longest record stream fed to the roll-frequency plot
MaxRollRecords == 3

(***************************************************************************)
(* Inputs.                                                                 *)
(***************************************************************************)
\* an optional argument: None, or a one-element sequence holding its value
None == <<>>
Some(v) == <<v>>

\* well-formed percentile tuples, and one of the wrong length
TupA     == <<-3, -2, -1, 1, 2, 3, 4>>
TupB     == <<-7, -6, -5, -4, -2, 0, 1>>
TupShort == <<1, 2, 3, 4, 5, 6>>
Tuples   == {TupA, TupB, TupShort}

\* one decoded input line: [xval, ptiles]
Records == [xval : 0..MaxIdx, ptiles : Tuples]

Formats   == {"png", "svg", "svgz", "pdf"}
Offsets   == {0, 2}
YLimits   == {<<None, None>>, <<Some(-5), Some(5)>>}

\* 'png svg svgz'.split(' ')
SupportedFormats == {"png", "svg", "svgz"}

NoFig == [drawn |-> FALSE, x |-> <<>>, median |-> <<>>, bands |-> <<>>,
          xlim |-> <<>>, ylim |-> <<>>]

(***************************************************************************)
(* plot-medrange.py                                                        *)
(***************************************************************************)
\* [0] * n : the empty list when n <= 0
Zeros(n) == [k \in 1..n |-> 0]

\* a faulty extend: one fill position too many
Extend_OffByOne(lst, n) == lst \o Zeros(n + 1)

\* lst.extend([0] * n)
Extend(lst, n) == lst \o Zeros(n)

\* offset_ptiles2's  [val - by for val in ptile]
OffsetTuple(ptile, by) == [k \in 1..Len(ptile) |-> ptile[k] - by]

\* ptiles_from_input2's  assert len(ptiles) == 7
TupleOk(ptiles) == Len(ptiles) = 7

\* a faulty extension: the high-water mark is not moved
ExtendAll_StaleMark(P, last, xval) ==
    IF xval > last
    THEN [P |-> [k \in 1..7 |-> Extend(P[k], xval - last)], last_idx |-> last]
    ELSE [P |-> P, last_idx |-> last]

\* lines 118-126: the extension of all seven lists; P is <<p0, ..., p100>>
ExtendAll(P, last, xval) ==
    IF xval > last
    THEN LET Q == [k \in 1..7 |-> Extend(P[k], xval - last)]
         IN  [P |-> Q, last_idx |-> Len(Q[1]) - 1]
    ELSE [P |-> P, last_idx |-> last]

\* a faulty store: the tiers are written in the reverse order
StoreAll_Reversed(P, xval, vals) ==
    [P  |-> [k \in 1..7 |-> [P[k] EXCEPT ![xval + 1] = vals[8 - k]]],
     ok |-> TRUE]

\* lines 127-133: p0[xval] = vals[0]; ...; p100[xval] = vals[6], in order;
\* an assignment outside its list raises IndexError and ends the sequence
StoreAll(P, xval, vals) ==
    LET bad  == {k \in 1..7 : xval >= Len(P[k])}
        stop == IF bad = {} THEN 8 ELSE CHOOSE k \in bad : \A j \in bad : k <= j
    IN  [P  |-> [k \in 1..7 |->
                   IF k < stop THEN [P[k] EXCEPT ![xval + 1] = vals[k]]
                               ELSE P[k]],
         ok |-> (stop = 8)]

\* lines 117-133: one iteration of plot2's loop on (xval, vals)
LoopBody(P, last, xval, vals) ==
    LET e == ExtendAll(P, last, xval)
        s == StoreAll(e.P, xval, vals)
    IN  [P |-> s.P, last_idx |-> e.last_idx, ok |-> s.ok]

Lists == <<p0, p5, p25, p50, p75, p95, p100>>

SetLists(P) ==
    /\ p0' = P[1] /\ p5' = P[2] /\ p25' = P[3] /\ p50' = P[4]
    /\ p75' = P[5] /\ p95' = P[6] /\ p100' = P[7]

Init ==
    /\ pc = "start"
    /\ err = ""
    /\ \E f \in Formats, by \in Offsets, yl \in YLimits :
          args = [format |-> f, offset_y |-> by, ymin |-> yl[1], ymax |-> yl[2]]
    /\ consumed = <<>>
    /\ p0 = <<>> /\ p5 = <<>> /\ p25 = <<>> /\ p50 = <<>>
    /\ p75 = <<>> /\ p95 = <<>> /\ p100 = <<>>
    /\ last_idx = -1
    /\ fig = NoFig
    /\ out_fd = <<>>
    /\ stderr = <<>>
    /\ roll_pc = "off" /\ roll_err = "" /\ roll_format = "png"
    /\ roll_read = <<>> /\ counts = <<>> /\ total = 0 /\ freqs = <<>>
    /\ roll_fig = NoFig /\ roll_out = <<>>

\* a faulty format check: the first input line is read before the check
CheckFormat_AfterRead ==
    /\ pc = "start"
    /\ \E rec \in Records :
          IF args.format \in SupportedFormats
          THEN /\ pc' = "loop"
               /\ err' = err
               /\ consumed' = consumed
          ELSE /\ pc' = "error"
               /\ err' = "AssertionError: file_format"
               /\ consumed' = Append(consumed, rec)
    /\ p0' = <<>> /\ p5' = <<>> /\ p25' = <<>> /\ p50' = <<>>
    /\ p75' = <<>> /\ p95' = <<>> /\ p100' = <<>>
    /\ last_idx' = -1
    /\ UNCHANGED <<args, fig, out_fd, stderr>>
    /\ UNCHANGED <<roll_pc, roll_err, roll_format, roll_read, counts, total,
                   freqs, roll_fig, roll_out>>

\* plot2 line 98, then lines 99-116
CheckFormat ==
    /\ pc = "start"
    /\ IF args.format \in SupportedFormats
       THEN /\ pc' = "loop"
            /\ err' = err
       ELSE /\ pc' = "error"
            /\ err' = "AssertionError: file_format"
    /\ SetLists(<<<<>>, <<>>, <<>>, <<>>, <<>>, <<>>, <<>>>>)
    /\ last_idx' = -1
    /\ UNCHANGED <<args, consumed, fig, out_fd, stderr>>
    /\ UNCHANGED rollvars

\* the for loop pulls one more line through ptiles_from_input2 and
\* offset_ptiles2 and runs the loop body on it
NextRecord ==
    /\ pc = "loop"
    /\ Len(consumed) < MaxRecords
    /\ \E rec \in Records :
          /\ consumed' = Append(consumed, rec)
          /\ IF ~TupleOk(rec.ptiles)
             THEN /\ pc' = "error"
                  /\ err' = "AssertionError: len(ptiles)"
                  /\ UNCHANGED <<p0, p5, p25, p50, p75, p95, p100, last_idx>>
             ELSE LET r == LoopBody(Lists, last_idx, rec.xval,
                                    OffsetTuple(rec.ptiles, args.offset_y))
                  IN  /\ SetLists(r.P)
                      /\ last_idx' = r.last_idx
                      /\ pc' = IF r.ok THEN "loop" ELSE "error"
                      /\ err' = IF r.ok THEN err ELSE "IndexError"
    /\ UNCHANGED <<args, fig, out_fd, stderr>>
    /\ UNCHANGED rollvars

\* min(lst) and max(lst) of a non-empty list
MinOf(lst) == CHOOSE v \in {lst[k] : k \in 1..Len(lst)} :
                 \A k \in 1..Len(lst) : v <= lst[k]
MaxOf(lst) == CHOOSE v \in {lst[k] : k \in 1..Len(lst)} :
                 \A k \in 1..Len(lst) : v >= lst[k]

\* list(range(n))
Range(n) == [k \in 1..n |-> k - 1]

\* line 148: plt.xlim(left=0, right=len(p100))
XLim(lst) == <<0, Len(lst)>>

\* lines 149-150 are comments and plot2 takes no ymin/ymax: the y limits
\* are never set and stay matplotlib's own
YLim(lo, hi, ymin, ymax) == None

\* a faulty first diagnostic: the maximum in place of the minimum
MedianMinLine_Max(lst) ==
    <<"Median game min =", MaxOf(lst), lst[1] - MaxOf(lst)>>

\* lines 156-157: log('Median game min =', min(p50), '(loss %d)' % ...)
MedianMinLine(lst) ==
    <<"Median game min =", MinOf(lst), lst[1] - MinOf(lst)>>

\* lines 158-160: log('Median game end =', p50[-1], '(loss %d)' % ...)
MedianEndLine(lst) ==
    <<"Median game end =", lst[Len(lst)], lst[1] - lst[Len(lst)]>>

\* the stream ends; lines 134-154 build the figure
Plot ==
    /\ pc = "loop"
    /\ fig' = [drawn  |-> TRUE,
               x      |-> Range(Len(p0)),
               median |-> p50,
               bands  |-> <<<<p100, p95>>, <<p95, p75>>, <<p75, p25>>,
                            <<p25, p5>>, <<p5, p0>>>>,
               xlim   |-> XLim(p100),
               ylim   |-> YLim(p0, p100, args.ymin, args.ymax)]
    /\ pc' = "plotted"
    /\ UNCHANGED <<err, args, consumed, p0, p5, p25, p50, p75, p95, p100,
                   last_idx, out_fd, stderr>>
    /\ UNCHANGED rollvars

\* line 155: plt.savefig(out_fd, transparent=transparent, format=file_format)
Save ==
    /\ pc = "plotted"
    /\ out_fd' = Append(out_fd, [format |-> args.format, chart |-> fig])
    /\ pc' = "saved"
    /\ UNCHANGED <<err, args, consumed, p0, p5, p25, p50, p75, p95, p100,
                   last_idx, fig, stderr>>
    /\ UNCHANGED rollvars

\* lines 156-157; min() of an empty list raises ValueError before log runs
LogMin ==
    /\ pc = "saved"
    /\ IF Len(p50) = 0
       THEN /\ pc' = "error"
            /\ err' = "ValueError: min() arg is an empty sequence"
            /\ stderr' = stderr
       ELSE /\ pc' = "logged_min"
            /\ err' = err
            /\ stderr' = Append(stderr, MedianMinLine(p50))
    /\ UNCHANGED <<args, consumed, p0, p5, p25, p50, p75, p95, p100,
                   last_idx, fig, out_fd>>
    /\ UNCHANGED rollvars

\* lines 158-160, then main returns 0
LogEnd ==
    /\ pc = "logged_min"
    /\ stderr' = Append(stderr, MedianEndLine(p50))
    /\ pc' = "done"
    /\ UNCHANGED <<err, args, consumed, p0, p5, p25, p50, p75, p95, p100,
                   last_idx, fig, out_fd>>
    /\ UNCHANGED rollvars

Next ==
    \/ CheckFormat
    \/ NextRecord
    \/ Plot
    \/ Save
    \/ LogMin
    \/ LogEnd

Spec == Init /\ [][Next]_vars

(***************************************************************************)
(* plot-rollstats.py                                                       *)
(***************************************************************************)
\* count vectors for roll values 2..12
ExampleCounts == <<10, 20, 30, 40, 50, 60, 50, 40, 30, 20, 10>>
ZeroCounts    == [i \in 1..11 |-> 0]
UnitCounts(v) == [i \in 1..11 |-> IF i = v THEN 1 ELSE 0]
ShortCounts   == [i \in 1..10 |-> 1]
RampCounts    == [i \in 1..11 |-> i]
CountVectors  == {ExampleCounts, ZeroCounts, ShortCounts, RampCounts,
                  UnitCounts(1), UnitCounts(6), UnitCounts(11)}

\* one decoded input line: a dict with the keys 'all' and 'hard'
RollRecords == [all : CountVectors, hard : {<<0, 0, 0, 0>>}]

RECURSIVE SumTo(_, _)
SumTo(lst, n) == IF n = 0 THEN 0 ELSE SumTo(lst, n - 1) + lst[n]

\* sum(counts)
Sum(lst) == SumTo(lst, Len(lst))

\* a faulty accumulation: the record replaces the running total
Accumulate_Overwrite(cs, cnt) == [i \in 1..Len(cs) |-> cnt[i]]

\* lines 75-76: counts[i] += cnt[i] for every i
Accumulate(cs, cnt) == [i \in 1..Len(cs) |-> cs[i] + cnt[i]]

\* c / total, kept as the exact fraction
Frac(c, t) == <<c, t>>

\* line 78: [c/total for c in counts]
Normalize(cs, t) == [i \in 1..Len(cs) |-> Frac(cs[i], t)]

\* comparison and equality of fractions with positive denominators
FracLeq(a, b) == a[1] * b[2] <= b[1] * a[2]
FracEq(a, b)  == a[1] * b[2] = b[1] * a[2]

\* max(freqs)
MaxFrac(fs) == CHOOSE f \in {fs[k] : k \in 1..Len(fs)} :
                  \A k \in 1..Len(fs) : FracLeq(fs[k], f)

\* line 80: max(freqs) * 1.1
YMax(fs) == <<11 * MaxFrac(fs)[1], 10 * MaxFrac(fs)[2]>>

\* make_expected_counts(num_rolls): num_rolls * k / 36 for k = 1..6..1
make_expected_counts(num_rolls) ==
    [i \in 1..11 |-> Frac(num_rolls * (IF i <= 6 THEN i ELSE 12 - i), 36)]

InitRoll ==
    /\ roll_pc = "start"
    /\ roll_err = ""
    /\ roll_format \in Formats
    /\ roll_read = <<>>
    /\ counts = <<>>
    /\ total = 0
    /\ freqs = <<>>
    /\ roll_fig = NoFig
    /\ roll_out = <<>>
    /\ pc = "off" /\ err = ""
    /\ args = [format |-> "png", offset_y |-> 0, ymin |-> None, ymax |-> None]
    /\ consumed = <<>>
    /\ p0 = <<>> /\ p5 = <<>> /\ p25 = <<>> /\ p50 = <<>>
    /\ p75 = <<>> /\ p95 = <<>> /\ p100 = <<>>
    /\ last_idx = -1 /\ fig = NoFig /\ out_fd = <<>> /\ stderr = <<>>

\* plot lines 70-71
RollCheckFormat ==
    /\ roll_pc = "start"
    /\ IF roll_format \in SupportedFormats
       THEN /\ roll_pc' = "loop"
            /\ roll_err' = roll_err
       ELSE /\ roll_pc' = "error"
            /\ roll_err' = "AssertionError: file_format"
    /\ counts' = [i \in 1..11 |-> 0]
    /\ UNCHANGED <<roll_format, roll_read, total, freqs, roll_fig, roll_out>>
    /\ UNCHANGED medvars

\* lines 72-76: one more record from counts_from_input
RollNextRecord ==
    /\ roll_pc = "loop"
    /\ Len(roll_read) < MaxRollRecords
    /\ \E rec \in RollRecords :
          /\ roll_read' = Append(roll_read, rec)
          /\ IF Len(counts) # Len(rec.all)
             THEN /\ roll_pc' = "error"
                  /\ roll_err' = "AssertionError: len(counts)"
                  /\ counts' = counts
             ELSE /\ roll_pc' = "loop"
                  /\ roll_err' = roll_err
                  /\ counts' = Accumulate(counts, rec.all)
    /\ UNCHANGED <<roll_format, total, freqs, roll_fig, roll_out>>
    /\ UNCHANGED medvars

\* lines 77-78: total = sum(counts); freqs = [c/total for c in counts]
RollNormalize ==
    /\ roll_pc = "loop"
    /\ total' = Sum(counts)
    /\ IF Sum(counts) = 0
       THEN /\ roll_pc' = "error"
            /\ roll_err' = "ZeroDivisionError"
            /\ freqs' = freqs
       ELSE /\ roll_pc' = "normalized"
            /\ roll_err' = roll_err
            /\ freqs' = Normalize(counts, Sum(counts))
    /\ UNCHANGED <<roll_format, roll_read, counts, roll_fig, roll_out>>
    /\ UNCHANGED medvars

\* lines 79-90
RollPlot ==
    /\ roll_pc = "normalized"
    /\ roll_fig' = [drawn    |-> TRUE,
                    x        |-> [i \in 1..11 |-> i + 1],
                    actual   |-> freqs,
                    expected |-> make_expected_counts(1),
                    xlim     |-> <<2, 12>>,
                    ylim     |-> <<Frac(0, 1), YMax(freqs)>>]
    /\ roll_pc' = "plotted"
    /\ UNCHANGED <<roll_err, roll_format, roll_read, counts, total, freqs,
                   roll_out>>
    /\ UNCHANGED medvars

\* line 91, then main returns 0
RollSave ==
    /\ roll_pc = "plotted"
    /\ roll_out' = Append(roll_out, [format |-> roll_format, chart |-> roll_fig])
    /\ roll_pc' = "done"
    /\ UNCHANGED <<roll_err, roll_format, roll_read, counts, total, freqs,
                   roll_fig>>
    /\ UNCHANGED medvars

NextRoll ==
    \/ RollCheckFormat
    \/ RollNextRecord
    \/ RollNormalize
    \/ RollPlot
    \/ RollSave

SpecRoll == InitRoll /\ [][NextRoll]_vars

(***************************************************************************)
(* Properties of plot-medrange.py                                          *)
(***************************************************************************)
EmptyLists == <<<<>>, <<>>, <<>>, <<>>, <<>>, <<>>, <<>>>>

\* main's pipeline run on a whole stream of well-formed records with
\* offset `by`: plot2's loop fed by offset_ptiles2
RECURSIVE Assemble(_, _)
Assemble(recs, by) ==
    IF recs = <<>>
    THEN [P |-> EmptyLists, last_idx |-> -1, ok |-> TRUE]
    ELSE LET prev == Assemble(SubSeq(recs, 1, Len(recs) - 1), by)
             r    == recs[Len(recs)]
         IN  LoopBody(prev.P, prev.last_idx, r.xval, OffsetTuple(r.ptiles, by))

Indices(recs) == {recs[j].xval : j \in 1..Len(recs)}
MaxSeen(recs) == CHOOSE m \in Indices(recs) : \A i \in Indices(recs) : i <= m
StrictlyIncreasing(recs) ==
    \A j \in 1..(Len(recs) - 1) : recs[j].xval < recs[j + 1].xval
XvalsOf(recs) == [j \in 1..Len(recs) |-> recs[j].xval]

\* C1: once the stream is exhausted (the figure is built), every one of the
\* seven lists has length (largest index seen) + 1, whatever the arrival
\* order, and the x-axis domain is 0..L-1.
C1_FinalLength ==
    fig.drawn =>
        /\ consumed # <<>> =>
              \A k \in 1..7 : Len(Lists[k]) = MaxSeen(consumed) + 1
        /\ Len(fig.x) = Len(p0)
        /\ \A i \in 1..Len(fig.x) : fig.x[i] = i - 1

\* a stream with a gap, an out-of-order record and a repeat has been drawn
C1_Witness ==
    /\ fig.drawn
    /\ XvalsOf(consumed) = <<3, 1, 3>>

\* C2: for a stream of strictly increasing indices, position i of tier k
\* holds T[k] for every record (i, T) fed to plot2, every position that got
\* no record holds 0 in all seven tiers, and the length is the last index + 1.
C2_IncreasingStream ==
    (pc \notin {"start", "error"} /\ StrictlyIncreasing(consumed)) =>
        /\ \A j \in 1..Len(consumed), k \in 1..7 :
              Lists[k][consumed[j].xval + 1] =
                  consumed[j].ptiles[k] - args.offset_y
        /\ \A k \in 1..7 : \A i \in 1..Len(Lists[k]) :
              (i - 1) \notin Indices(consumed) => Lists[k][i] = 0
        /\ consumed # <<>> =>
              \A k \in 1..7 :
                  Len(Lists[k]) = consumed[Len(consumed)].xval + 1

\* the records [(0, T0), (3, T3)] have been assembled and drawn
C2_Witness ==
    /\ fig.drawn
    /\ args.offset_y = 0
    /\ consumed = <<[xval |-> 0, ptiles |-> TupA], [xval |-> 3, ptiles |-> TupB]>>
    /\ Len(p50) = 4 /\ p50[2] = 0 /\ p50[3] = 0

\* the record the last step read
LastRead == consumed[Len(consumed)]

\* C3: a well-formed record whose index is <= the high-water mark ends the
\* invocation in an error and leaves the seven lists as they were.
C3_LateRecordFlagged ==
    [][(/\ pc = "loop"
        /\ consumed' # consumed
        /\ TupleOk(LastRead'.ptiles)
        /\ LastRead'.xval <= last_idx)
         => (pc' = "error" /\ Lists' = Lists)]_vars

\* C4: a run that ends in the empty-series failure has saved nothing.
C4_EmptyNoArtifact ==
    (pc = "error" /\ err = "ValueError: min() arg is an empty sequence")
        => out_fd = <<>>

\* C5: a run that failed on the format or on a tuple's length has written
\* nothing to the output, and on the format it has read no record.
C5_FailBeforeSave ==
    /\ (pc = "error" /\ err = "AssertionError: file_format")
          => (out_fd = <<>> /\ consumed = <<>> /\ ~fig.drawn)
    /\ (pc = "error" /\ err = "AssertionError: len(ptiles)")
          => (out_fd = <<>> /\ ~fig.drawn)
    /\ (pc # "start" /\ args.format \notin SupportedFormats)
          => (pc = "error" /\ err = "AssertionError: file_format")
    /\ (consumed # <<>> /\ ~TupleOk(LastRead.ptiles))
          => (pc = "error" /\ err = "AssertionError: len(ptiles)")

\* a malformed tuple arrived after two good records
C5_Witness ==
    /\ pc = "error"
    /\ err = "AssertionError: len(ptiles)"
    /\ Len(consumed) = 3

\* C6: with offset `by`, every position of every drawn list is the
\* offset-0 pipeline's value at that position minus `by`, gap-filled
\* positions included, and the lengths agree.
C6_OffsetEveryPosition ==
    fig.drawn =>
        LET ref == Assemble(consumed, 0).P
        IN  \A k \in 1..7 :
               /\ Len(Lists[k]) = Len(ref[k])
               /\ \A i \in 1..Len(Lists[k]) :
                     Lists[k][i] = ref[k][i] - args.offset_y

\* C7: no diagnostic precedes the saved chart; a finished run has printed
\* exactly two lines, the minimum of the median with its loss (>= 0) and the
\* last median with its loss, and the output holds the chart alone.
C7_Diagnostics ==
    /\ Len(stderr) <= 2
    /\ stderr # <<>> => (Len(out_fd) = 1 /\ Len(p50) >= 1)
    /\ Len(out_fd) <= 1
    /\ out_fd # <<>> => out_fd[1] = [format |-> args.format, chart |-> fig]
    /\ pc = "done" =>
          LET L == Len(p50)
          IN  /\ L >= 1
              /\ Len(stderr) = 2
              /\ stderr[1][1] = "Median game min ="
              /\ \E i \in 1..L : stderr[1][2] = p50[i]
              /\ \A i \in 1..L : stderr[1][2] <= p50[i]
              /\ stderr[1][3] = p50[1] - stderr[1][2]
              /\ stderr[1][3] >= 0
              /\ stderr[2] = <<"Median game end =", p50[L], p50[1] - p50[L]>>

\* a finished run whose median dipped below its start and recovered
C7_Witness ==
    /\ pc = "done"
    /\ Len(p50) >= 3
    /\ stderr[1][3] > 0
    /\ stderr[2][3] < stderr[1][3]

\* C8: the saved chart has x limits [0, L-1] and y limits
\* [0, max(max(p100), -min(p0))], or the configured ymin/ymax when given.
C8_AxisLimits ==
    (out_fd # <<>> /\ Len(p0) >= 1) =>
        /\ out_fd[1].chart.xlim = <<0, Len(p0) - 1>>
        /\ out_fd[1].chart.ylim =
              IF args.ymin = None /\ args.ymax = None
              THEN Some(<<0, IF MaxOf(p100) >= -MinOf(p0)
                            THEN MaxOf(p100) ELSE -MinOf(p0)>>)
              ELSE Some(<<args.ymin[1], args.ymax[1]>>)

\* the state after each processed record, for C10
C10_Inv ==
    pc # "error" =>
        /\ \A k \in 1..7 : Len(Lists[k]) = Len(p0)
        /\ last_idx = Len(p0) - 1
        /\ last_idx = IF consumed = <<>> THEN -1 ELSE MaxSeen(consumed)

\* what one processed record may change, for C10
C10_Step ==
    pc' # "error" =>
        /\ C10_Inv'
        /\ last_idx' >= last_idx
        /\ \A k \in 1..7 :
              /\ Len(Lists'[k]) >= Len(Lists[k])
              /\ \A i \in 1..Len(Lists[k]) :
                    Lists'[k][i] # Lists[k][i] =>
                        (consumed' # consumed /\ i = LastRead'.xval + 1)
              /\ \A i \in (Len(Lists[k]) + 1)..Len(Lists'[k]) :
                    i # LastRead'.xval + 1 => Lists'[k][i] = 0

\* C10: at every loop boundary the seven lists have one length, last_idx
\* starts at -1, is that length minus 1 and the greatest index seen, never
\* decreases, and a record changes only its own position and new fill.
C10_HighWaterMark ==
    /\ (last_idx = -1 /\ C10_Inv)
    /\ [][C10_Step]_vars

\* a record at or below the high-water mark was processed after a gap
C10_Witness ==
    /\ pc = "loop"
    /\ XvalsOf(consumed) = <<2, 0, 3>>
    /\ consumed[2].ptiles # consumed[1].ptiles

(***************************************************************************)
(* Properties of plot-rollstats.py                                         *)
(***************************************************************************)
\* the sum of position i of the 'all' vectors of a stream
RECURSIVE SlotTotal(_, _)
SlotTotal(recs, i) ==
    IF recs = <<>> THEN 0
    ELSE SlotTotal(Tail(recs), i) + Head(recs).all[i]

GrandTotal(recs) ==
    SlotTotal(recs, 1) + SlotTotal(recs, 2) + SlotTotal(recs, 3)
  + SlotTotal(recs, 4) + SlotTotal(recs, 5) + SlotTotal(recs, 6)
  + SlotTotal(recs, 7) + SlotTotal(recs, 8) + SlotTotal(recs, 9)
  + SlotTotal(recs, 10) + SlotTotal(recs, 11)

AllElevenLong(recs) == \A j \in 1..Len(recs) : Len(recs[j].all) = 11

\* C9: after the last record the running total is the element-wise sum of
\* the 'all' vectors, freq[i] * total = counts[i], the single example record
\* gives 1/6 for roll value 7 as expected, and a zero total fails before
\* anything is saved.
C9_RollFrequencies ==
    /\ (roll_pc \in {"loop", "normalized", "plotted", "done"}) =>
          \A i \in 1..11 : counts[i] = SlotTotal(roll_read, i)
    /\ (roll_pc \in {"normalized", "plotted", "done"}) =>
          /\ total = GrandTotal(roll_read)
          /\ total > 0
          /\ \A i \in 1..11 :
                /\ freqs[i][2] > 0
                /\ freqs[i][1] * GrandTotal(roll_read)
                      = SlotTotal(roll_read, i) * freqs[i][2]
          /\ roll_read = <<[all |-> ExampleCounts, hard |-> <<0, 0, 0, 0>>]>> =>
                /\ FracEq(freqs[6], <<1, 6>>)
                /\ FracEq(freqs[6], make_expected_counts(1)[6])
    /\ (roll_pc \notin {"start", "loop"} /\ AllElevenLong(roll_read)
          /\ roll_format \in SupportedFormats
          /\ GrandTotal(roll_read) = 0) =>
          /\ roll_pc = "error"
          /\ roll_err = "ZeroDivisionError"
          /\ roll_out = <<>>
          /\ ~roll_fig.drawn
    /\ roll_out # <<>> => (roll_pc = "done" /\ total > 0)

\* a chart of three summed records, the example among them, was saved
C9_Witness ==
    /\ roll_pc = "done"
    /\ Len(roll_out) = 1
    /\ Len(roll_read) = 3
    /\ roll_read[1].all = ExampleCounts
    /\ roll_read[2].all = UnitCounts(6)
    /\ counts[6] = 62

====
